---- MODULE Spec2Model ----
(***************************************************************************)
(* Lifecycle, connection management and status notification of the MCP     *)
(* client (client/client.go) and server (server/server.go).                *)
(*                                                                         *)
(* One lifecycle-managed component is modelled at a time; `role` says       *)
(* whether it is a Client or a Server.  Callers are threads that invoke      *)
(* Start/Stop; units are the goroutines the component spawns (the client's  *)
(* monitorConnection goroutines, the server's acceptConnections and         *)
(* handleConnection goroutines); observers are the callbacks registered     *)
(* with OnStatusChange, each status event being delivered to each of them   *)
(* by a goroutine of its own.                                               *)
(***************************************************************************)
EXTENDS Integers, Sequences, FiniteSets, TLC

\* ------------------------------------------------------------------ bounds
\* Number of threads that call Start/Stop concurrently.
NumCallers == 2
\* Number of connections (and so of per-connection goroutines) alive at once.
MaxUnits == 2
\* Number of observers registered with OnStatusChange.
MaxObservers == 2
\* Number of status events an observer's log has room for.
MaxLog == 2

\* Length of the longest list a handler's Methods() returns.
MaxMethods == 2
\* Number of Client.ProcessModel calls the application makes.
MaxCalls == 2
\* The limit the server is given with WithMaxConcurrentClients.
MaxConcurrentClients == 1

\* DefaultOptions().MaxReconnectAttempts
MaxReconnectAttempts == 3

Callers == 1..NumCallers
Slots == 1..MaxUnits
Observers == 1..MaxObservers

\* core.Status
StatusStopped == "Stopped"
StatusStarting == "Starting"
StatusRunning == "Running"
StatusStopping == "Stopping"
StatusFailed == "Failed"
Status == {StatusStopped, StatusStarting, StatusRunning, StatusStopping, StatusFailed}

VARIABLES
    role,             \* "client" or "server": which component this instance is
    autoReconnect,    \* client Options.AutoReconnect
    status,           \* Client.status / Server.status
    ctxDone,          \* the context made by New() has been cancelled
    conn,             \* Client.conn: 0 is nil, otherwise the connection's slot
    isConnected,      \* Client.isConnected
    reconnectAttempt, \* Client.reconnectAttempt
    listenerOpen,     \* the listener bound by the last Server.Start is open
    acceptPc,         \* the acceptConnections goroutine: "none" or "accept"
    units,            \* per slot: the goroutine bound to that connection
    connOpen,         \* per slot: the transport connection is open
    dials,            \* connect() calls made by the current attemptReconnect
    cpc,              \* per caller: where it is in Start/Stop
    ret,              \* the call that returned last and what it returned
    lastEvent,        \* the last StatusChangeEvent constructed
    callbacks,        \* Client.callbacks / Server.callbacks
    reg,              \* per observer: where its OnStatusChange call is
    pending,          \* callback goroutines spawned and not yet run
    expected,         \* per observer: events constructed since it registered
    received,         \* per observer: events its callback was invoked with
    handlers,         \* Server.handlers: method name -> registered handler
    regRet,           \* the last RegisterHandler call and what it returned
    call,             \* per connection: the JSON-RPC call in progress on it
    crashed,          \* the server process died of a panic
    pm,               \* the application's Client.ProcessModel call in progress
    wire              \* requests the client wrote that its peer has not answered

vars == <<role, autoReconnect, status, ctxDone, conn, isConnected,
          reconnectAttempt, listenerOpen, acceptPc, units, connOpen,
          dials, cpc, ret, lastEvent, callbacks, reg, pending, expected,
          received, handlers, regRet, call, crashed, pm, wire>>

lifeVars == <<status, lastEvent, pending, expected>>
clientVars == <<conn, isConnected, reconnectAttempt, dials>>
serverVars == <<listenerOpen, acceptPc>>
obsVars == <<callbacks, reg, received>>
cfgVars == <<role, autoReconnect>>
rpcVars == <<handlers, regRet, call, crashed>>
pmVars == <<pm, wire>>

NoUnit == [pc |-> "none", conn |-> 0, origin |-> "none"]

FreeSlots == {k \in Slots : /\ units[k].pc = "none"
                             /\ ~connOpen[k]
                             /\ call[k].st \in {"idle", "returned"}
                             /\ pm.conn # k}
\* the slot a new connection gets
NewSlot == CHOOSE k \in FreeSlots : \A j \in FreeSlots : k <= j

\* sync.WaitGroup counter: goroutines added and not yet done
WgCount == Cardinality({k \in Slots : units[k].pc # "none"})
             + (IF acceptPc = "none" THEN 0 ELSE 1)

Range(s) == {s[i] : i \in 1..Len(s)}

\* the observers whose OnStatusChange call has returned
Registered == {o \in Observers : reg[o].pc = "done"}

\* ----------------------------------------------------- handlers and calls
\* The method the client calls, and a method name of a custom handler.
ProcessModelMethod == "mcp.processModel"
CustomMethod == "custom.method1"
MethodNames == {ProcessModelMethod, CustomMethod}

\* The handlers a server is given: DefaultModelHandler; a ModelHandler that
\* answers every request with one fixed response, success = false; a
\* ModelHandler that returns an error; and a Handler that is no ModelHandler.
DefaultModelHandler == "default"
RejectingHandler == "rejecting"
FailingHandler == "failing"
BasicHandler == "basic"
HandlerKinds == {DefaultModelHandler, RejectingHandler, FailingHandler, BasicHandler}
ModelHandler == HandlerKinds \ {BasicHandler}

\* what handler.Methods() may return: the lists of at most MaxMethods names
MethodLists == UNION {[1..n -> MethodNames] : n \in 0..MaxMethods}

NoHandler == "none"
\* make(map[string]interface{})
NoHandlers == [m \in MethodNames |-> NoHandler]
\* the registries that RegisterHandler calls can build before Start()
Registries == [MethodNames -> HandlerKinds \cup {NoHandler}]

NoRegistration == [handler |-> NoHandler, methods |-> <<>>, err |-> "none"]

\* core.ModelRequest.ID of the requests the peer of connection k sends
RequestId(k) == <<"req", k>>
NoId == <<>>

\* core.ModelResponse (the timestamp left out); the zero value stands for nil
ZeroResponse == [id |-> NoId, success |-> FALSE, errorMessage |-> "", results |-> {}]

\* core.NewModelResponse
NewModelResponse(req) ==
    [id |-> req.id, success |-> TRUE, errorMessage |-> "", results |-> {}]

\* core.ErrorResponse
ErrorResponse(req, err) ==
    [id |-> req.id, success |-> FALSE, errorMessage |-> err, results |-> {}]

\* handler.ProcessModel(ctx, req): the response and the error it returns
ProcessModel(handler, req) ==
    CASE handler = DefaultModelHandler ->
           [resp |-> [NewModelResponse(req) EXCEPT
                        !.results = {<<"status", "processed">>,
                                     <<"message", "Model processed successfully">>}],
            err |-> "nil"]
      [] handler = RejectingHandler ->
           [resp |-> [id |-> NoId, success |-> FALSE,
                      errorMessage |-> "rejected request", results |-> {}],
            err |-> "nil"]
      [] handler = FailingHandler ->
           [resp |-> ZeroResponse, err |-> "processError"]

\* The params of a JSON-RPC request as the server finds them in req.Params:
\* absent (a nil pointer), the JSON null, a JSON string, or a JSON object.
NoParams == [kind |-> "absent", id |-> NoId]
NullParams == [kind |-> "null", id |-> NoId]
StringParams == [kind |-> "string", id |-> NoId]

\* json.Marshal of a *core.ModelRequest, as conn.Call makes the params
MarshalRequest(req) == [kind |-> "object", id |-> req.id]

\* json.Unmarshal(params, &modelReq): null leaves the zero request, an object
\* sets its fields, anything else is an error
UnmarshalRequest(params) ==
    CASE params.kind = "object" -> [req |-> [id |-> params.id], err |-> "nil"]
      [] params.kind = "null" -> [req |-> [id |-> NoId], err |-> "nil"]
      [] OTHER -> [req |-> [id |-> NoId], err |-> "unmarshal"]

\* MarshalResponse with the slip of never writing errorMessage.
MarshalResponseNoMessage(resp) ==
    [id |-> resp.id, success |-> resp.success,
     errorMessage |-> [present |-> FALSE, value |-> ""],
     results |-> resp.results]

\* json.Marshal of a *core.ModelResponse: errorMessage has omitempty
MarshalResponse(resp) ==
    [id |-> resp.id, success |-> resp.success,
     errorMessage |-> [present |-> resp.errorMessage # "", value |-> resp.errorMessage],
     results |-> resp.results]

\* json.Unmarshal(result, &resp) into a zero core.ModelResponse
UnmarshalResponse(json) ==
    [id |-> json.id, success |-> json.success,
     errorMessage |-> IF json.errorMessage.present THEN json.errorMessage.value ELSE "",
     results |-> json.results]

\* jsonrpc2 error codes
CodeMethodNotFound == "MethodNotFound"
CodeInvalidRequest == "InvalidRequest"
CodeInvalidParams == "InvalidParams"
CodeInternalError == "InternalError"

NoResult == MarshalResponse(ZeroResponse)
\* no handler was invoked for the call
NotInvoked == [handler |-> NoHandler, req |-> [id |-> NoId], resp |-> ZeroResponse,
               err |-> "none"]
\* the client's call has not returned
NotReturned == [resp |-> ZeroResponse, err |-> "none"]

\* the calls the peer of connection k sends: a request sent to either method
\* name, as Client.ProcessModel sends it to mcp.processModel, and calls of
\* mcp.processModel with no params, with null and with a string for params
Frames(k) ==
    [method : MethodNames, params : {MarshalRequest([id |-> RequestId(k)])}]
      \cup [method : {ProcessModelMethod},
            params : {NoParams, NullParams, StringParams}]
\* no call has been made on the connection
IdleCall == [st |-> "idle"]

\* A call in progress: st is "sent" (the call is on the wire), "replied"
\* (Handle has run), "returned" (the caller has its answer) or "panicked";
\* replies are the replies the server sent for it, invoked is the handler
\* invocation made for it, result is what the client's ProcessModel returned.
SentCall(frame) == [st |-> "sent", frame |-> frame, replies |-> <<>>,
                    invoked |-> NotInvoked, result |-> NotReturned]

\* What Client.ProcessModel returned: resp is the number of the call the
\* response answers, 0 for a nil response.
NoOutcome == [resp |-> 0, err |-> "none"]
\* no reply has been handed to the call that waits
NoReply == [n |-> 0, kind |-> "none"]
\* The replies of the peer: a result, or a protocol error.
ReplyKinds == {"result", CodeInternalError}

\* No ProcessModel call is in progress.  Of a call in progress, pc is "call"
\* (c.conn was read, conn.Call is next) or "wait" (the request is written and
\* conn.Call waits), conn is the connection that was read, ctx the state of
\* the caller's context, pre whether it was cancelled when the call was made,
\* n the number of the call and ready the reply handed to it; result is what
\* the last call returned, if no call was made since.
IdlePm == [pc |-> "idle", conn |-> 0, ctx |-> "live", pre |-> FALSE, n |-> 0,
           ready |-> NoReply, result |-> NoOutcome]

\* New(): the component as constructed, without its handler registry
ComponentInit ==
    /\ role \in {"client", "server"}
    /\ autoReconnect \in BOOLEAN
    /\ (role = "server" => autoReconnect = FALSE)
    /\ status = StatusStopped
    /\ ctxDone = FALSE
    /\ conn = 0
    /\ isConnected = FALSE
    /\ reconnectAttempt = 0
    /\ listenerOpen = FALSE
    /\ acceptPc = "none"
    /\ units = [k \in Slots |-> NoUnit]
    /\ connOpen = [k \in Slots |-> FALSE]
    /\ dials = 0
    /\ cpc = [t \in Callers |-> "idle"]
    /\ ret = [op |-> "none", val |-> "none", at |-> "none"]
    /\ lastEvent = [old |-> StatusStopped, new |-> StatusStopped, err |-> "nil"]
    /\ callbacks = <<>>
    /\ reg = [o \in Observers |-> [pc |-> "idle", snap |-> <<>>]]
    /\ pending = {}
    /\ expected = [o \in Observers |-> <<>>]
    /\ received = [o \in Observers |-> <<>>]
    /\ pm = IdlePm
    /\ wire = {}

\* New(): handlers is an empty map; no call has been made
Init ==
    /\ ComponentInit
    /\ handlers = NoHandlers
    /\ regRet = NoRegistration
    /\ call = [k \in Slots |-> IdleCall]
    /\ crashed = FALSE

\* ------------------------------------------------------- status notifier
\* The observer whose callback never returns.
BlockingObserver == 1

\* The callback goroutines that are blocked: those that have invoked the
\* callback of the blocking observer.
Blocked == {[obs |-> BlockingObserver, idx |-> received[BlockingObserver][j]] :
               j \in 1..Len(received[BlockingObserver])}

\* updateStatusLocked with the slip of calling the callbacks itself, one after
\* the other, instead of starting a goroutine for each: with the blocking
\* observer among them the call never returns.
updateStatusLockedInline(newStatus, err) ==
    LET event == [old |-> status, new |-> newStatus, err |-> err] IN
    /\ BlockingObserver \notin Range(callbacks)
    /\ status' = newStatus
    /\ lastEvent' = event
    /\ expected' = [o \in Observers |->
                      IF o \in Registered THEN Append(expected[o], event)
                      ELSE expected[o]]
    /\ pending' = pending \cup
                    {[obs |-> o, idx |-> Len(expected[o]) + 1] : o \in Range(callbacks)}

\* updateStatusLocked: records the new status, constructs the event and starts
\* one goroutine per registered callback (`go callback(event)`).
updateStatusLocked(newStatus, err) ==
    LET event == [old |-> status, new |-> newStatus, err |-> err] IN
    /\ status' = newStatus
    /\ lastEvent' = event
    /\ expected' = [o \in Observers |->
                      IF o \in Registered THEN Append(expected[o], event)
                      ELSE expected[o]]
    /\ pending' = pending \cup
                    {[obs |-> o, idx |-> Len(expected[o]) + 1] : o \in Range(callbacks)}

\* updateStatus with the slip of reading the old status before statusMu is
\* taken: the status the event is built with is the one current when the
\* event before it was built.
updateStatusStaleRead(newStatus, err) ==
    LET event == [old |-> lastEvent.old, new |-> newStatus, err |-> err] IN
    /\ status' = newStatus
    /\ lastEvent' = event
    /\ expected' = [o \in Observers |->
                      IF o \in Registered THEN Append(expected[o], event)
                      ELSE expected[o]]
    /\ pending' = pending \cup
                    {[obs |-> o, idx |-> Len(expected[o]) + 1] : o \in Range(callbacks)}

\* updateStatus: updateStatusLocked under statusMu
updateStatus(newStatus, err) == updateStatusLocked(newStatus, err)

\* ------------------------------------------------------------- callers
\* A call is made only while every observer's log has room for the events of
\* the calls in progress and of this one (a call emits at most two).
EventRoom ==
    \A o \in Registered :
        Len(expected[o]) + 2 * Cardinality({t \in Callers : cpc[t] # "idle"}) + 2 <= MaxLog

\* no peer has sent a call yet
NoCallYet == \A k \in Slots : call[k].st = "idle"
\* no Start() or Stop() is in progress
CallersIdle == \A t \in Callers : cpc[t] = "idle"

\* A thread calls Start() or Stop(); it does so before the peers send calls,
\* and while the application is in no ProcessModel call.
Invoke(t, op) ==
    /\ cpc[t] = "idle"
    /\ EventRoom
    /\ NoCallYet
    /\ pm.pc = "idle"
    /\ cpc' = [cpc EXCEPT ![t] = op]
    /\ UNCHANGED ret
    /\ UNCHANGED <<cfgVars, rpcVars, pmVars, lifeVars, clientVars, serverVars, obsVars,
                   ctxDone, units, connOpen>>

\* A thread calls Stop() while the application's ProcessModel call waits for
\* its reply.
StopDuringCall(t) ==
    /\ cpc[t] = "idle"
    /\ EventRoom
    /\ NoCallYet
    /\ pm.pc = "wait"
    /\ cpc' = [cpc EXCEPT ![t] = "stop"]
    /\ UNCHANGED ret
    /\ UNCHANGED <<cfgVars, rpcVars, pmVars, lifeVars, clientVars, serverVars, obsVars,
                   ctxDone, units, connOpen>>

Return(t, op, r) ==
    /\ cpc' = [cpc EXCEPT ![t] = "idle"]
    /\ ret' = [op |-> op, val |-> r, at |-> "none"]

\* return fmt.Errorf("cannot start/stop ... in %s state", status)
ReturnStateError(t, op) ==
    /\ cpc' = [cpc EXCEPT ![t] = "idle"]
    /\ ret' = [op |-> op, val |-> "StateError", at |-> status]

Goto(t, l) ==
    /\ cpc' = [cpc EXCEPT ![t] = l]
    /\ UNCHANGED ret

\* StartCheck with the slip of also letting a Failed component start again.
StartCheckFromFailed(t) ==
    /\ cpc[t] = "start"
    /\ IF status \notin {StatusStopped, StatusFailed}
       THEN /\ ReturnStateError(t, "start")
            /\ UNCHANGED lifeVars
       ELSE /\ updateStatusLocked(StatusStarting, "nil")
            /\ Goto(t, "start_connect")
    /\ UNCHANGED <<cfgVars, rpcVars, pmVars, clientVars, serverVars, obsVars,
                   ctxDone, units, connOpen>>

\* StartCheck with the slip of a check that another Start() can pass before
\* the first one's successor is through its connect.
StartCheckUnlocked(t) ==
    /\ cpc[t] = "start"
    /\ IF status \notin {StatusStopped, StatusStarting}
       THEN /\ ReturnStateError(t, "start")
            /\ UNCHANGED lifeVars
       ELSE /\ updateStatusLocked(StatusStarting, "nil")
            /\ Goto(t, "start_connect")
    /\ UNCHANGED <<cfgVars, rpcVars, pmVars, clientVars, serverVars, obsVars,
                   ctxDone, units, connOpen>>

\* Start(), first part: the status check and Stopped -> Starting under statusMu.
StartCheck(t) ==
    /\ cpc[t] = "start"
    /\ IF status # StatusStopped
       THEN /\ ReturnStateError(t, "start")
            /\ UNCHANGED lifeVars
       ELSE /\ updateStatusLocked(StatusStarting, "nil")
            /\ Goto(t, "start_connect")
    /\ UNCHANGED <<cfgVars, rpcVars, pmVars, clientVars, serverVars, obsVars,
                   ctxDone, units, connOpen>>

\* StopCheck with the slip of not rejecting a Stop() during a Stop().
StopCheckFromStopping(t) ==
    /\ cpc[t] = "stop"
    /\ IF status \notin {StatusRunning, StatusStopping}
       THEN /\ ReturnStateError(t, "stop")
            /\ UNCHANGED lifeVars
       ELSE /\ updateStatusLocked(StatusStopping, "nil")
            /\ Goto(t, "stop_cancel")
    /\ UNCHANGED <<cfgVars, rpcVars, pmVars, clientVars, serverVars, obsVars,
                   ctxDone, units, connOpen>>

\* Stop(), first part: the status check and Running -> Stopping under statusMu.
StopCheck(t) ==
    /\ cpc[t] = "stop"
    /\ IF status # StatusRunning
       THEN /\ ReturnStateError(t, "stop")
            /\ UNCHANGED lifeVars
       ELSE /\ updateStatusLocked(StatusStopping, "nil")
            /\ Goto(t, "stop_cancel")
    /\ UNCHANGED <<cfgVars, rpcVars, pmVars, clientVars, serverVars, obsVars,
                   ctxDone, units, connOpen>>

\* Stop(): c.cancel() / s.cancel()
StopCancel(t) ==
    /\ cpc[t] = "stop_cancel"
    /\ ctxDone' = TRUE
    /\ Goto(t, "stop_close")
    /\ UNCHANGED <<cfgVars, rpcVars, pmVars, lifeVars, clientVars, serverVars, obsVars,
                   units, connOpen>>

\* StopWait with the slip of not joining the goroutines before Stopped is
\* recorded.
StopWaitUnjoined(t) ==
    /\ cpc[t] = "stop_wait"
    /\ updateStatus(StatusStopped, "nil")
    /\ Return(t, "stop", "nil")
    /\ UNCHANGED <<cfgVars, rpcVars, pmVars, clientVars, serverVars, obsVars,
                   ctxDone, units, connOpen>>

\* Stop(): wg.Wait() returns once every goroutine is done; then
\* updateStatus(Stopped) and return nil.
StopWait(t) ==
    /\ cpc[t] = "stop_wait"
    /\ WgCount = 0
    /\ updateStatus(StatusStopped, "nil")
    /\ Return(t, "stop", "nil")
    /\ UNCHANGED <<cfgVars, rpcVars, pmVars, clientVars, serverVars, obsVars,
                   ctxDone, units, connOpen>>

\* ------------------------------------------------------------- client
\* connect() succeeding: the dial gives a new transport connection, which is
\* stored in c.conn with isConnected = true, and monitorConnection is started.
ConnectOk ==
    /\ conn' = NewSlot
    /\ isConnected' = TRUE
    /\ connOpen' = [connOpen EXCEPT ![NewSlot] = TRUE]

\* Client.Start(): connect(), then updateStatus(Running) or updateStatus(Failed)
ClientStartConnect(t) ==
    /\ role = "client"
    /\ cpc[t] = "start_connect"
    /\ \E ok \in BOOLEAN :
         IF ok /\ FreeSlots # {}
         THEN /\ ConnectOk
              /\ units' = [units EXCEPT ![NewSlot] =
                             [pc |-> "read", conn |-> 0, origin |-> "start"]]
              /\ Goto(t, "start_running")
         ELSE /\ Goto(t, "start_failed")
              /\ UNCHANGED <<conn, isConnected, connOpen, units>>
    /\ UNCHANGED <<cfgVars, rpcVars, pmVars, lifeVars, serverVars, obsVars, ctxDone,
                   reconnectAttempt, dials>>

\* StartRunning with the slip of returning nil without recording Running.
StartRunningUnrecorded(t) ==
    /\ cpc[t] = "start_running"
    /\ Return(t, "start", "nil")
    /\ UNCHANGED <<cfgVars, rpcVars, pmVars, lifeVars, clientVars, serverVars, obsVars,
                   ctxDone, units, connOpen>>

\* StartFailed with the slip of going back to Stopped, which lets the caller
\* start again, instead of recording Failed.
StartFailedToStopped(t) ==
    /\ cpc[t] = "start_failed"
    /\ updateStatus(StatusStopped, "connect")
    /\ Return(t, "start", "ConnectionError")
    /\ UNCHANGED <<cfgVars, rpcVars, pmVars, clientVars, serverVars, obsVars,
                   ctxDone, units, connOpen>>

\* Start(), last part after a successful connect()/net.Listen:
\* updateStatus(Running); return nil
StartRunning(t) ==
    /\ cpc[t] = "start_running"
    /\ updateStatus(StatusRunning, "nil")
    /\ Return(t, "start", "nil")
    /\ UNCHANGED <<cfgVars, rpcVars, pmVars, clientVars, serverVars, obsVars,
                   ctxDone, units, connOpen>>

\* StartFailed with the slip of recording Failed without the error.
StartFailedNoCause(t) ==
    /\ cpc[t] = "start_failed"
    /\ updateStatus(StatusFailed, "nil")
    /\ Return(t, "start", "ConnectionError")
    /\ UNCHANGED <<cfgVars, rpcVars, pmVars, clientVars, serverVars, obsVars,
                   ctxDone, units, connOpen>>

\* Start(), last part after a failed connect()/net.Listen:
\* updateStatus(Failed); return the wrapped error
StartFailed(t) ==
    /\ cpc[t] = "start_failed"
    /\ updateStatus(StatusFailed, "connect")
    /\ Return(t, "start", "ConnectionError")
    /\ UNCHANGED <<cfgVars, rpcVars, pmVars, clientVars, serverVars, obsVars,
                   ctxDone, units, connOpen>>

\* The transport connection of slot k is closed: the requests written on it
\* and not answered never will be.
CloseTransport(k) ==
    /\ connOpen' = [connOpen EXCEPT ![k] = FALSE]
    /\ wire' = {w \in wire : w.conn # k}

\* ClientStopClose with the slip of forgetting the connection without closing
\* it.
ClientStopCloseLeaking(t) ==
    /\ role = "client"
    /\ cpc[t] = "stop_close"
    /\ conn' = 0
    /\ isConnected' = FALSE
    /\ Goto(t, "stop_wait")
    /\ UNCHANGED <<cfgVars, rpcVars, pmVars, lifeVars, serverVars, obsVars, ctxDone,
                   units, connOpen, reconnectAttempt, dials>>

\* Client.Stop(): close c.conn, c.conn = nil, isConnected = false under connMu
ClientStopClose(t) ==
    /\ role = "client"
    /\ cpc[t] = "stop_close"
    /\ IF conn # 0 THEN CloseTransport(conn) ELSE UNCHANGED <<connOpen, wire>>
    /\ conn' = 0
    /\ isConnected' = FALSE
    /\ Goto(t, "stop_wait")
    /\ UNCHANGED <<cfgVars, rpcVars, pm, lifeVars, serverVars, obsVars, ctxDone,
                   units, reconnectAttempt, dials>>

\* wg.Done(): the goroutine of slot k returns
UnitDone(k) == units' = [units EXCEPT ![k] = NoUnit]

UnitGoto(k, l) == units' = [units EXCEPT ![k].pc = l]

\* monitorConnection: conn := c.conn under connMu; return if it is nil
MonitorRead(k) ==
    /\ role = "client"
    /\ units[k].pc = "read"
    /\ IF conn = 0
       THEN UnitDone(k)
       ELSE units' = [units EXCEPT ![k].pc = "wait", ![k].conn = conn]
    /\ UNCHANGED <<cfgVars, rpcVars, pmVars, lifeVars, clientVars, serverVars, obsVars,
                   ctxDone, connOpen, cpc, ret>>

\* monitorConnection: <-conn.DisconnectNotify(), then isConnected = false
MonitorDisconnected(k) ==
    /\ role = "client"
    /\ units[k].pc = "wait"
    /\ ~connOpen[units[k].conn]
    /\ isConnected' = FALSE
    /\ UnitGoto(k, "check")
    /\ UNCHANGED <<cfgVars, rpcVars, pmVars, lifeVars, serverVars, obsVars, ctxDone, connOpen, cpc, ret, conn, reconnectAttempt, dials>>

\* MonitorCheck with the slip of not looking at the AutoReconnect option.
MonitorCheckAlways(k) ==
    /\ role = "client"
    /\ units[k].pc = "check"
    /\ IF status = StatusRunning
       THEN /\ UnitGoto(k, "loop")
            /\ dials' = 0
       ELSE /\ UnitDone(k)
            /\ UNCHANGED dials
    /\ UNCHANGED <<cfgVars, rpcVars, pmVars, lifeVars, serverVars, obsVars, ctxDone,
                   connOpen, cpc, ret, conn, isConnected, reconnectAttempt>>

\* monitorConnection: if c.opts.AutoReconnect && c.status == core.StatusRunning
MonitorCheck(k) ==
    /\ role = "client"
    /\ units[k].pc = "check"
    /\ IF autoReconnect /\ status = StatusRunning
       THEN /\ UnitGoto(k, "loop")
            /\ dials' = 0
       ELSE /\ UnitDone(k)
            /\ UNCHANGED dials
    /\ UNCHANGED <<cfgVars, rpcVars, pmVars, lifeVars, serverVars, obsVars, ctxDone, connOpen, cpc, ret, conn, isConnected, reconnectAttempt>>

\* attemptReconnect: the loop condition; c.reconnectAttempt++ when it holds,
\* updateStatus(Failed) when it does not
ReconnectLoop(k) ==
    /\ role = "client"
    /\ units[k].pc = "loop"
    /\ IF reconnectAttempt < MaxReconnectAttempts
       THEN /\ reconnectAttempt' = reconnectAttempt + 1
            /\ UnitGoto(k, "sleep")
            /\ UNCHANGED lifeVars
       ELSE /\ updateStatus(StatusFailed, "exhausted")
            /\ UnitDone(k)
            /\ UNCHANGED reconnectAttempt
    /\ UNCHANGED <<cfgVars, rpcVars, pmVars, serverVars, obsVars, ctxDone, connOpen, cpc, ret, conn, isConnected, dials>>

\* The loop condition and the increment at the grain of the memory accesses
\* they are, c.reconnectAttempt being shared by the goroutines with no lock.
\* ReconnectLoopTest with the slip of a loop condition that lets one attempt
\* too many through.
ReconnectLoopTestInclusive(k) ==
    /\ role = "client"
    /\ units[k].pc = "loop"
    /\ IF reconnectAttempt <= MaxReconnectAttempts
       THEN /\ UnitGoto(k, "incr")
            /\ UNCHANGED lifeVars
       ELSE /\ updateStatus(StatusFailed, "exhausted")
            /\ UnitDone(k)
    /\ UNCHANGED <<cfgVars, rpcVars, pmVars, clientVars, serverVars, obsVars, ctxDone,
                   connOpen, cpc, ret>>

\* attemptReconnect: c.reconnectAttempt is read and compared with
\* MaxReconnectAttempts; updateStatus(Failed) when it is not below it
ReconnectLoopTest(k) ==
    /\ role = "client"
    /\ units[k].pc = "loop"
    /\ IF reconnectAttempt < MaxReconnectAttempts
       THEN /\ UnitGoto(k, "incr")
            /\ UNCHANGED lifeVars
       ELSE /\ updateStatus(StatusFailed, "exhausted")
            /\ UnitDone(k)
    /\ UNCHANGED <<cfgVars, rpcVars, pmVars, clientVars, serverVars, obsVars, ctxDone,
                   connOpen, cpc, ret>>

\* c.reconnectAttempt++, first half: the goroutine reads the counter
ReconnectLoopLoad(k) ==
    /\ role = "client"
    /\ units[k].pc = "incr"
    /\ units' = [units EXCEPT ![k] = [pc |-> "store", conn |-> @.conn,
                                      origin |-> @.origin,
                                      loaded |-> reconnectAttempt]]
    /\ UNCHANGED <<cfgVars, rpcVars, pmVars, lifeVars, clientVars, serverVars, obsVars,
                   ctxDone, connOpen, cpc, ret>>

\* c.reconnectAttempt++, second half: it writes what it read, plus one
ReconnectLoopStore(k) ==
    /\ role = "client"
    /\ units[k].pc = "store"
    /\ reconnectAttempt' = units[k].loaded + 1
    /\ units' = [units EXCEPT ![k] = [pc |-> "sleep", conn |-> @.conn,
                                      origin |-> @.origin]]
    /\ UNCHANGED <<cfgVars, rpcVars, pmVars, lifeVars, serverVars, obsVars, ctxDone,
                   connOpen, cpc, ret, conn, isConnected, dials>>

\* attemptReconnect: time.Sleep(ReconnectDelay), then the check of c.ctx.Done()
ReconnectSleep(k) ==
    /\ role = "client"
    /\ units[k].pc = "sleep"
    /\ IF ctxDone THEN UnitDone(k) ELSE UnitGoto(k, "dial")
    /\ UNCHANGED <<cfgVars, rpcVars, pmVars, lifeVars, clientVars, serverVars, obsVars,
                   ctxDone, connOpen, cpc, ret>>

\* attemptReconnect: c.connect()
ReconnectDial(k) ==
    /\ role = "client"
    /\ units[k].pc = "dial"
    /\ dials' = dials + 1
    /\ \E ok \in BOOLEAN :
         IF ok /\ FreeSlots # {}
         THEN /\ ConnectOk
              /\ units' = [units EXCEPT
                             ![k].pc = "reset",
                             ![NewSlot] = [pc |-> "read", conn |-> 0, origin |-> "retry"]]
         ELSE /\ UnitGoto(k, "loop")
              /\ UNCHANGED <<conn, isConnected, connOpen>>
    /\ UNCHANGED <<cfgVars, rpcVars, pmVars, lifeVars, serverVars, obsVars, ctxDone, cpc, ret, reconnectAttempt>>

\* attemptReconnect: c.reconnectAttempt = 0; return
ReconnectReset(k) ==
    /\ role = "client"
    /\ units[k].pc = "reset"
    /\ reconnectAttempt' = 0
    /\ UnitDone(k)
    /\ UNCHANGED <<cfgVars, rpcVars, pmVars, lifeVars, serverVars, obsVars, ctxDone, connOpen, cpc, ret, conn, isConnected, dials>>

\* ------------------------------------------------------------- server
\* Server.Start(): net.Listen; on success the listener is kept and
\* acceptConnections is started, then updateStatus(Running); on failure
\* updateStatus(Failed)
ServerStartListen(t) ==
    /\ role = "server"
    /\ cpc[t] = "start_connect"
    /\ \E ok \in BOOLEAN :
         IF ok
         THEN /\ listenerOpen' = TRUE
              /\ acceptPc' = "accept"
              /\ Goto(t, "start_running")
         ELSE /\ Goto(t, "start_failed")
              /\ UNCHANGED serverVars
    /\ UNCHANGED <<cfgVars, rpcVars, pmVars, lifeVars, clientVars, obsVars, ctxDone, units,
                   connOpen>>

\* acceptConnections: listener.Accept() returns a connection, and
\* handleConnection is started for it (it then waits for DisconnectNotify)
AcceptConn ==
    /\ role = "server"
    /\ acceptPc = "accept"
    /\ listenerOpen
    /\ FreeSlots # {}
    /\ connOpen' = [connOpen EXCEPT ![NewSlot] = TRUE]
    /\ units' = [units EXCEPT ![NewSlot] =
                   [pc |-> "serve", conn |-> NewSlot, origin |-> "accept"]]
    /\ UNCHANGED <<cfgVars, rpcVars, pmVars, lifeVars, clientVars, serverVars, obsVars,
                   ctxDone, cpc, ret>>

\* acceptConnections: listener.Accept() returns an error, because the listener
\* is closed or for a transient reason; the loop returns if s.ctx is done and
\* logs and continues otherwise
AcceptError(transient) ==
    /\ role = "server"
    /\ acceptPc = "accept"
    /\ transient \/ ~listenerOpen
    /\ acceptPc' = IF ctxDone THEN "none" ELSE "accept"
    /\ UNCHANGED <<cfgVars, rpcVars, pmVars, lifeVars, clientVars, obsVars, ctxDone, units,
                   connOpen, cpc, ret, listenerOpen>>

\* handleConnection: <-rpcConn.DisconnectNotify() returns; the deferred
\* conn.Close() and wg.Done() run.  The connection's reader, which runs the
\* handler itself, notices the end of the connection once the handler is back.
HandleConnectionDone(k) ==
    /\ role = "server"
    /\ units[k].pc = "serve"
    /\ ~connOpen[k]
    /\ call[k].st # "handling"
    /\ UnitDone(k)
    /\ UNCHANGED <<cfgVars, rpcVars, pmVars, lifeVars, clientVars, serverVars, obsVars,
                   ctxDone, connOpen, cpc, ret>>

\* ServerStopClose with the slip of a Stop() that also empties the handler
\* registry.
ServerStopCloseClearing(t) ==
    /\ role = "server"
    /\ cpc[t] = "stop_close"
    /\ listenerOpen' = FALSE
    /\ handlers' = NoHandlers
    /\ Goto(t, "stop_wait")
    /\ UNCHANGED <<cfgVars, regRet, call, crashed, pmVars, lifeVars, clientVars, obsVars,
                   ctxDone, units, connOpen, acceptPc>>

\* Server.Stop(): listener.Close() for every listener
ServerStopClose(t) ==
    /\ role = "server"
    /\ cpc[t] = "stop_close"
    /\ listenerOpen' = FALSE
    /\ Goto(t, "stop_wait")
    /\ UNCHANGED <<cfgVars, rpcVars, pmVars, lifeVars, clientVars, obsVars, ctxDone, units,
                   connOpen, acceptPc>>

ServerNext ==
    \/ \E t \in Callers : ServerStartListen(t) \/ ServerStopClose(t)
    \/ AcceptConn
    \/ \E transient \in BOOLEAN : AcceptError(transient)
    \/ \E k \in Slots : HandleConnectionDone(k)

\* ------------------------------------------- handler registry and dispatch
\* what the lifecycle, the connections and the observers are made of
componentVars == <<cfgVars, lifeVars, clientVars, serverVars, obsVars,
                   ctxDone, units, connOpen, cpc, ret>>

\* RegisterLoop with the slip of storing the handler before looking whether
\* the name is taken.
RECURSIVE RegisterLoopOverwriting(_, _, _, _)
RegisterLoopOverwriting(registry, handler, methods, i) ==
    IF i > Len(methods)
    THEN [handlers |-> registry, err |-> "nil"]
    ELSE IF registry[methods[i]] # NoHandler
         THEN [handlers |-> [registry EXCEPT ![methods[i]] = handler],
               err |-> methods[i]]
         ELSE RegisterLoopOverwriting([registry EXCEPT ![methods[i]] = handler],
                                      handler, methods, i + 1)

\* RegisterHandler's loop over handler.Methods(), from position i on: a name
\* that is already registered ends the call with an error, any other name is
\* given the handler at once
RECURSIVE RegisterLoop(_, _, _, _)
RegisterLoop(registry, handler, methods, i) ==
    IF i > Len(methods)
    THEN [handlers |-> registry, err |-> "nil"]
    ELSE IF registry[methods[i]] # NoHandler
         THEN [handlers |-> registry, err |-> methods[i]]
         ELSE RegisterLoop([registry EXCEPT ![methods[i]] = handler],
                           handler, methods, i + 1)

\* Server.RegisterHandler(handler), with what handler.Methods() returns
RegisterHandler(handler, methods) ==
    LET r == RegisterLoop(handlers, handler, methods, 1) IN
    /\ handlers' = r.handlers
    /\ regRet' = [handler |-> handler, methods |-> methods, err |-> r.err]
    /\ UNCHANGED <<componentVars, pmVars, call, crashed>>

\* A peer sends a call on connection k, while no Start() is in progress:
\* conn.Call on the client's side writes the request; the server's jsonrpc2
\* connection will read it.
Send(k, frame) ==
    /\ role = "server"
    /\ CallersIdle
    /\ units[k].pc = "serve"
    /\ connOpen[k]
    /\ call[k].st \in {"idle", "returned"}
    /\ call' = [call EXCEPT ![k] = SentCall(frame)]
    /\ UNCHANGED <<componentVars, pmVars, handlers, regRet, crashed>>

ErrorReply(code, message) ==
    [code |-> code, message |-> message, result |-> NoResult]

ResultReply(resp) ==
    [code |-> "none", message |-> "", result |-> MarshalResponse(resp)]

\* conn.ReplyWithError / conn.Reply for the call on connection k, after the
\* handler invocation `invoked` (NotInvoked if there was none)
SendReply(k, invoked, reply) ==
    /\ call' = [call EXCEPT ![k].st = "replied",
                            ![k].invoked = invoked,
                            ![k].replies = Append(@, reply)]
    /\ UNCHANGED <<componentVars, pmVars, handlers, regRet, crashed>>

\* A panic in the goroutine that reads connection k, which nothing recovers:
\* the process dies, and with it every thread, goroutine, listener and
\* connection.
Panic(k) ==
    /\ crashed' = TRUE
    /\ call' = [call EXCEPT ![k].st = "panicked"]
    /\ connOpen' = [j \in Slots |-> FALSE]
    /\ units' = [j \in Slots |-> NoUnit]
    /\ listenerOpen' = FALSE
    /\ acceptPc' = "none"
    /\ cpc' = [t \in Callers |-> "dead"]
    /\ UNCHANGED <<cfgVars, pmVars, lifeVars, clientVars, obsVars, ctxDone,
                   ret, handlers, regRet>>

\* handleProcessModel with the slip of answering a handler's error with an
\* unsuccessful response instead of an error reply.
handleProcessModelErrorAsResponse(k, req, handler) ==
    IF handler \notin ModelHandler
    THEN SendReply(k, NotInvoked,
                   ErrorReply(CodeInternalError, "handler is not a ModelHandler"))
    ELSE IF req.params = NoParams
    THEN Panic(k)
    ELSE LET decoded == UnmarshalRequest(req.params) IN
         IF decoded.err # "nil"
         THEN SendReply(k, NotInvoked, ErrorReply(CodeInvalidParams, decoded.err))
         ELSE LET out == ProcessModel(handler, decoded.req)
                  invoked == [handler |-> handler, req |-> decoded.req,
                              resp |-> out.resp, err |-> out.err]
              IN IF out.err # "nil"
                 THEN SendReply(k, invoked,
                                ResultReply(ErrorResponse(decoded.req, out.err)))
                 ELSE SendReply(k, invoked, ResultReply(out.resp))

\* rpcHandler.handleProcessModel
handleProcessModel(k, req, handler) ==
    IF handler \notin ModelHandler
    THEN SendReply(k, NotInvoked,
                   ErrorReply(CodeInternalError, "handler is not a ModelHandler"))
    ELSE IF req.params = NoParams
    THEN Panic(k)
    ELSE LET decoded == UnmarshalRequest(req.params) IN
         IF decoded.err # "nil"
         THEN SendReply(k, NotInvoked, ErrorReply(CodeInvalidParams, decoded.err))
         ELSE LET out == ProcessModel(handler, decoded.req)
                  invoked == [handler |-> handler, req |-> decoded.req,
                              resp |-> out.resp, err |-> out.err]
              IN IF out.err # "nil"
                 THEN SendReply(k, invoked, ErrorReply(CodeInternalError, out.err))
                 ELSE SendReply(k, invoked, ResultReply(out.resp))

\* Handle with the slip of answering an unregistered method as it answers a
\* registered method it does not dispatch.
HandleUnknownAsInvalidRequest(k) ==
    /\ role = "server"
    /\ units[k].pc = "serve"
    /\ connOpen[k]
    /\ call[k].st = "sent"
    /\ LET req == call[k].frame
           handler == handlers[req.method]
       IN IF handler # NoHandler /\ req.method = ProcessModelMethod
          THEN handleProcessModel(k, req, handler)
          ELSE SendReply(k, NotInvoked, ErrorReply(CodeInvalidRequest, req.method))

\* rpcHandler.Handle: the jsonrpc2 connection k hands the next request to it
Handle(k) ==
    /\ role = "server"
    /\ units[k].pc = "serve"
    /\ connOpen[k]
    /\ call[k].st = "sent"
    /\ LET req == call[k].frame
           handler == handlers[req.method]
       IN IF handler = NoHandler
          THEN SendReply(k, NotInvoked, ErrorReply(CodeMethodNotFound, req.method))
          ELSE IF req.method = ProcessModelMethod
               THEN handleProcessModel(k, req, handler)
               ELSE SendReply(k, NotInvoked, ErrorReply(CodeInvalidRequest, req.method))

\* Client.ProcessModel, from conn.Call returning on: an error reply or a closed
\* connection makes it return (nil, "RPC error: ..."), a result is decoded
\* into a core.ModelResponse and returned with a nil error
CallReturn(k) ==
    /\ call[k].st \in {"sent", "replied", "panicked"}
    /\ call[k].st # "replied" => ~connOpen[k]
    /\ LET reply == call[k].replies[1]
           result == IF call[k].st # "replied"
                     THEN [resp |-> ZeroResponse, err |-> "closed"]
                     ELSE IF reply.code # "none"
                          THEN [resp |-> ZeroResponse, err |-> reply.code]
                          ELSE [resp |-> UnmarshalResponse(reply.result), err |-> "nil"]
       IN call' = [call EXCEPT ![k].st = "returned", ![k].result = result]
    /\ UNCHANGED <<componentVars, pmVars, handlers, regRet, crashed>>

\* ---------------------------------------------------- a slow handler
\* SlowModelHandler: a ModelHandler whose ProcessModel returns a response when
\* its delay has passed, or ctx.Err() when ctx is done before that.
SlowHandler == "slow"
\* the registry after RegisterHandler(&SlowModelHandler{...})
SlowRegistry ==
    [m \in MethodNames |-> IF m = ProcessModelMethod THEN SlowHandler ELSE NoHandler]

\* The connection whose calls take the handler longer than any time the
\* server is watched for.
BlockedConn == 1

\* The context a handler is given for a call on connection k is done: Handle
\* is given the context that handleConnection gave to jsonrpc2.NewConn, s.ctx.
HandlerCtxDone(k) == ctxDone

\* the call Client.ProcessModel makes on connection k
ModelCall(k) ==
    [method |-> ProcessModelMethod, params |-> MarshalRequest([id |-> RequestId(k)])]

\* A thread calls Stop() after peers have sent calls.
StopWhileServing(t) ==
    /\ cpc[t] = "idle"
    /\ EventRoom
    /\ ~NoCallYet
    /\ pm.pc = "idle"
    /\ cpc' = [cpc EXCEPT ![t] = "stop"]
    /\ UNCHANGED ret
    /\ UNCHANGED <<cfgVars, rpcVars, pmVars, lifeVars, clientVars, serverVars, obsVars,
                   ctxDone, units, connOpen>>

\* SlowEnter with the slip of a lock of the server held while a handler runs.
SlowEnterSerialized(k) ==
    /\ role = "server"
    /\ units[k].pc = "serve"
    /\ connOpen[k]
    /\ call[k].st = "sent"
    /\ \A j \in Slots : call[j].st # "handling"
    /\ LET req == call[k].frame
           decoded == UnmarshalRequest(req.params)
       IN /\ req.method = ProcessModelMethod
          /\ handlers[req.method] = SlowHandler
          /\ req.params # NoParams
          /\ decoded.err = "nil"
          /\ call' = [call EXCEPT ![k].st = "handling",
                                  ![k].invoked = [handler |-> SlowHandler,
                                                  req |-> decoded.req,
                                                  resp |-> ZeroResponse,
                                                  err |-> "none"]]
    /\ UNCHANGED <<componentVars, pmVars, handlers, regRet, crashed>>

\* rpcHandler.Handle and handleProcessModel for a call of mcp.processModel
\* with the slow handler registered, up to modelHandler.ProcessModel(ctx,
\* &modelReq), which the reader of connection k now executes.
SlowEnter(k) ==
    /\ role = "server"
    /\ units[k].pc = "serve"
    /\ connOpen[k]
    /\ call[k].st = "sent"
    /\ LET req == call[k].frame
           decoded == UnmarshalRequest(req.params)
       IN /\ req.method = ProcessModelMethod
          /\ handlers[req.method] = SlowHandler
          /\ req.params # NoParams
          /\ decoded.err = "nil"
          /\ call' = [call EXCEPT ![k].st = "handling",
                                  ![k].invoked = [handler |-> SlowHandler,
                                                  req |-> decoded.req,
                                                  resp |-> ZeroResponse,
                                                  err |-> "none"]]
    /\ UNCHANGED <<componentVars, pmVars, handlers, regRet, crashed>>

\* SlowModelHandler.ProcessModel returns, its delay having passed (elapsed) or
\* its ctx being done, and handleProcessModel replies with the response or
\* with an InternalError; the reply fails, and is logged, if the connection
\* is closed.
SlowReturn(k, elapsed) ==
    /\ call[k].st = "handling"
    /\ elapsed \/ HandlerCtxDone(k)
    /\ LET req == call[k].invoked.req
           resp == IF elapsed
                   THEN [NewModelResponse(req) EXCEPT
                           !.results = {<<"status", "processed after delay">>}]
                   ELSE ZeroResponse
           err == IF elapsed THEN "nil" ELSE "canceled"
           invoked == [handler |-> SlowHandler, req |-> req, resp |-> resp, err |-> err]
       IN IF connOpen[k]
          THEN IF err # "nil"
               THEN SendReply(k, invoked, ErrorReply(CodeInternalError, err))
               ELSE SendReply(k, invoked, ResultReply(resp))
          ELSE /\ call' = [call EXCEPT ![k].st = "unanswered", ![k].invoked = invoked]
               /\ UNCHANGED <<componentVars, pmVars, handlers, regRet, crashed>>

\* ------------------------------------------------- Client.ProcessModel
\* return from ProcessModel with a response (0 for nil) and an error
PmReturn(resp, err) ==
    pm' = [IdlePm EXCEPT !.n = pm.n, !.result = [resp |-> resp, err |-> err]]

\* Client.ProcessModel, first part: the application, while in no Start() or
\* Stop(), makes a call, with a context that is cancelled already or is not;
\* conn := c.conn under connMu, and errors.New("not connected to server") if
\* it is nil
ProcessModelRead(cancelled) ==
    /\ role = "client"
    /\ pm.pc = "idle"
    /\ CallersIdle
    /\ pm.n < MaxCalls
    /\ IF conn = 0
       THEN pm' = [pm EXCEPT !.n = pm.n + 1,
                             !.result = [resp |-> 0, err |-> "NotConnected"]]
       ELSE pm' = [pm EXCEPT !.pc = "call",
                             !.n = pm.n + 1,
                             !.conn = conn,
                             !.ctx = IF cancelled THEN "done" ELSE "live",
                             !.pre = cancelled,
                             !.result = NoOutcome]
    /\ UNCHANGED <<componentVars, rpcVars, wire>>

\* conn.Call, first part: the request is written on the connection, whatever
\* the state of ctx, unless the connection is closed, which is an error
ProcessModelCall ==
    /\ pm.pc = "call"
    /\ IF connOpen[pm.conn]
       THEN /\ wire' = wire \cup {[conn |-> pm.conn, n |-> pm.n]}
            /\ pm' = [pm EXCEPT !.pc = "wait"]
       ELSE /\ PmReturn(0, "closed")
            /\ UNCHANGED wire
    /\ UNCHANGED <<componentVars, rpcVars>>

\* ProcessModelWait with the slip of closing the connection when a call ends
\* in an error.
ProcessModelWaitClosing ==
    /\ pm.pc = "wait"
    /\ \/ /\ pm.ready.kind = "result"
          /\ PmReturn(pm.ready.n, "nil")
          /\ UNCHANGED <<connOpen, wire>>
       \/ /\ pm.ready.kind \notin {"none", "result"}
          /\ PmReturn(0, pm.ready.kind)
          /\ CloseTransport(pm.conn)
       \/ /\ pm.ctx = "done"
          /\ PmReturn(0, "canceled")
          /\ CloseTransport(pm.conn)
       \/ /\ ~connOpen[pm.conn]
          /\ PmReturn(0, "closed")
          /\ UNCHANGED <<connOpen, wire>>
    /\ UNCHANGED <<cfgVars, lifeVars, clientVars, serverVars, obsVars,
                   ctxDone, units, cpc, ret, rpcVars>>

\* conn.Call, second part, and the return of ProcessModel: the select takes
\* the reply when there is one, ctx.Done() when ctx is done, and the closing
\* of the connection; a result is decoded into the response, anything else is
\* returned as an error with a nil response
ProcessModelWait ==
    /\ pm.pc = "wait"
    /\ \/ /\ pm.ready.kind = "result"
          /\ PmReturn(pm.ready.n, "nil")
       \/ /\ pm.ready.kind \notin {"none", "result"}
          /\ PmReturn(0, pm.ready.kind)
       \/ /\ pm.ctx = "done"
          /\ PmReturn(0, "canceled")
       \/ /\ ~connOpen[pm.conn]
          /\ PmReturn(0, "closed")
    /\ UNCHANGED <<componentVars, rpcVars, wire>>

\* The context of the call in progress is cancelled, or its deadline passes.
CtxCancel ==
    /\ pm.pc \in {"call", "wait"}
    /\ pm.ctx = "live"
    /\ pm' = [pm EXCEPT !.ctx = "done"]
    /\ UNCHANGED <<componentVars, rpcVars, wire>>

\* the oldest request written on connection k that the peer has not answered
Oldest(k) == CHOOSE w \in wire : w.conn = k /\ \A v \in wire : v.conn = k => w.n <= v.n

\* PeerReply with the slip of a reader that can hand a reply only to a call
\* that waits for it: the reply to an abandoned call is never taken.
PeerReplyUnbuffered(k, kind) ==
    /\ connOpen[k]
    /\ \E w \in wire : w.conn = k
    /\ pm.pc = "wait" /\ pm.conn = k /\ pm.n = Oldest(k).n
    /\ wire' = wire \ {Oldest(k)}
    /\ pm' = [pm EXCEPT !.ready = [n |-> Oldest(k).n, kind |-> kind]]
    /\ UNCHANGED <<componentVars, rpcVars>>

\* The peer answers the oldest request on connection k, and the connection's
\* reader hands the reply to the call with the request's id: to the call that
\* waits if it is that one, and otherwise to a call that was abandoned, whose
\* buffered channel takes it.
PeerReply(k, kind) ==
    /\ connOpen[k]
    /\ \E w \in wire : w.conn = k
    /\ wire' = wire \ {Oldest(k)}
    /\ IF pm.pc = "wait" /\ pm.conn = k /\ pm.n = Oldest(k).n
       THEN pm' = [pm EXCEPT !.ready = [n |-> Oldest(k).n, kind |-> kind]]
       ELSE UNCHANGED pm
    /\ UNCHANGED <<componentVars, rpcVars>>

\* -------------------------------------------------------------- observers
\* OnStatusChange: callbacks = append(callbacks, callback), which no lock
\* protects: the slice is read ...
OnStatusChangeRead(o) ==
    /\ reg[o].pc = "idle"
    /\ reg' = [reg EXCEPT ![o] = [pc |-> "append", snap |-> callbacks]]
    /\ UNCHANGED <<cfgVars, rpcVars, pmVars, lifeVars, clientVars, serverVars, ctxDone, units,
                   connOpen, cpc, ret, callbacks, received>>

\* ... and the slice that was read, with the callback appended, is stored
OnStatusChangeWrite(o) ==
    /\ reg[o].pc = "append"
    /\ callbacks' = Append(reg[o].snap, o)
    /\ reg' = [reg EXCEPT ![o] = [pc |-> "done", snap |-> <<>>]]
    /\ UNCHANGED <<cfgVars, rpcVars, pmVars, lifeVars, clientVars, serverVars, ctxDone, units,
                   connOpen, cpc, ret, received>>

\* One `go callback(event)` goroutine runs: the observer's callback is invoked
\* with the event the goroutine was started with (received keeps the event's
\* position in the observer's expected log).
Deliver(g) ==
    /\ g \in pending
    /\ pending' = pending \ {g}
    /\ received' = [received EXCEPT ![g.obs] = Append(@, g.idx)]
    /\ UNCHANGED <<cfgVars, rpcVars, pmVars, status, lastEvent, expected,
                   clientVars, serverVars, ctxDone, units, connOpen, cpc, ret,
                   callbacks, reg>>

ObserverNext ==
    \/ \E o \in Observers : OnStatusChangeRead(o) \/ OnStatusChangeWrite(o)
    \/ \E g \in pending : Deliver(g)

\* ------------------------------------------------------------ environment
\* The peer or the network closes the transport connection of slot k.
Disconnect(k) ==
    /\ connOpen[k]
    /\ CloseTransport(k)
    /\ UNCHANGED <<cfgVars, rpcVars, pm, lifeVars, clientVars, serverVars, obsVars,
                   ctxDone, units, cpc, ret>>

ClientNext ==
    \/ \E t \in Callers : ClientStartConnect(t) \/ ClientStopClose(t)
    \/ \E k \in Slots : \/ MonitorRead(k)
                        \/ MonitorDisconnected(k)
                        \/ MonitorCheck(k)
                        \/ ReconnectLoop(k)
                        \/ ReconnectSleep(k)
                        \/ ReconnectDial(k)
                        \/ ReconnectReset(k)

CallerNext ==
    \E t \in Callers :
        \/ Invoke(t, "start")
        \/ Invoke(t, "stop")
        \/ StartCheck(t)
        \/ StopCheck(t)
        \/ StopCancel(t)
        \/ StopWait(t)
        \/ StartRunning(t)
        \/ StartFailed(t)

EnvNext == \E k \in Slots : Disconnect(k)

\* The lifecycle and the connection managers of both roles, without observers.
Next ==
    \/ CallerNext
    \/ ClientNext
    \/ ServerNext
    \/ EnvNext

Spec == Init /\ [][Next]_vars

\* A server nobody connects to, with observers registered and notified.
ObsInit == Init /\ role = "server"

ObsNext ==
    \/ CallerNext
    \/ \E t \in Callers : ServerStartListen(t) \/ ServerStopClose(t)
    \/ \E transient \in BOOLEAN : AcceptError(transient)
    \/ ObserverNext

ObsSpec == ObsInit /\ [][ObsNext]_vars

\* A server and the RegisterHandler calls made on it.
RegInit == Init /\ role = "server"

RegNext == \E handler \in HandlerKinds, methods \in MethodLists :
               RegisterHandler(handler, methods)

RegSpec == RegInit /\ [][RegNext]_vars

\* A server whose handlers were registered before Start(), which is started,
\* accepts connections and serves the calls its peers send.
RpcInit ==
    /\ ComponentInit
    /\ role = "server"
    /\ handlers \in Registries
    /\ regRet = NoRegistration
    /\ call = [k \in Slots |-> IdleCall]
    /\ crashed = FALSE

RpcNext ==
    \/ \E t \in Callers : \/ Invoke(t, "start")
                           \/ StartCheck(t)
                           \/ ServerStartListen(t)
                           \/ StartRunning(t)
                           \/ StartFailed(t)
    \/ AcceptConn
    \/ \E k \in Slots : \/ \E frame \in Frames(k) : Send(k, frame)
                         \/ Handle(k)
                         \/ CallReturn(k)

RpcSpec == RpcInit /\ [][RpcNext]_vars

\* The thread that starts and stops the client.
Owner == 1

\* A client that one thread starts and stops while another calls ProcessModel
\* on it and the peer answers, or does not.
PmInit == Init /\ role = "client"

PmNext ==
    \/ Invoke(Owner, "start") \/ Invoke(Owner, "stop")
    \/ StartCheck(Owner) \/ StopCheck(Owner) \/ StopCancel(Owner) \/ StopWait(Owner)
    \/ StartRunning(Owner) \/ StartFailed(Owner)
    \/ ClientNext
    \/ EnvNext
    \/ \E cancelled \in BOOLEAN : ProcessModelRead(cancelled)
    \/ ProcessModelCall
    \/ ProcessModelWait
    \/ CtxCancel
    \/ \E k \in Slots, kind \in ReplyKinds : PeerReply(k, kind)

PmSpec == PmInit /\ [][PmNext]_vars

\* What the goroutines of the component do when scheduled: every step of a
\* call in progress, of a spawned unit and of a callback goroutine.  A call
\* being made, a peer connecting or disconnecting, a transient Accept error and
\* the reachability of the server are the environment's.
CallerStep(t) ==
    \/ StartCheck(t) \/ StopCheck(t) \/ StopCancel(t) \/ StopWait(t)
    \/ StartRunning(t) \/ StartFailed(t)
    \/ ClientStartConnect(t) \/ ClientStopClose(t)
    \/ ServerStartListen(t) \/ ServerStopClose(t)

UnitStep(k) ==
    \/ MonitorRead(k) \/ MonitorDisconnected(k) \/ MonitorCheck(k)
    \/ ReconnectLoop(k) \/ ReconnectSleep(k) \/ ReconnectDial(k)
    \/ ReconnectReset(k) \/ HandleConnectionDone(k)

\* The Go scheduler runs every runnable goroutine eventually.
Fairness ==
    /\ \A t \in Callers : WF_vars(CallerStep(t))
    /\ \A k \in Slots : WF_vars(UnitStep(k))
    /\ WF_vars(AcceptError(FALSE))

FairSpec == Init /\ [][Next]_vars /\ Fairness

\* A client with AutoReconnect off that one thread starts and stops while
\* another calls ProcessModel on it.  The thread in ProcessModel runs when it
\* can, and the peer answers the requests it was sent as long as the
\* connection is open.
CallInit == PmInit /\ ~autoReconnect

CallNext ==
    \/ Invoke(Owner, "start") \/ Invoke(Owner, "stop")
    \/ StartCheck(Owner) \/ StopCheck(Owner) \/ StopCancel(Owner) \/ StopWait(Owner)
    \/ StartRunning(Owner) \/ StartFailed(Owner)
    \/ ClientStartConnect(Owner) \/ ClientStopClose(Owner)
    \/ \E k \in Slots : MonitorRead(k) \/ MonitorDisconnected(k) \/ MonitorCheck(k)
    \/ EnvNext
    \/ \E cancelled \in BOOLEAN : ProcessModelRead(cancelled)
    \/ ProcessModelCall
    \/ ProcessModelWait
    \/ CtxCancel
    \/ \E k \in Slots, kind \in ReplyKinds : PeerReply(k, kind)

CallFairness ==
    /\ WF_vars(CallerStep(Owner))
    /\ \A k \in Slots : WF_vars(UnitStep(k))
    /\ WF_vars(ProcessModelCall)
    /\ WF_vars(ProcessModelWait)
    /\ WF_vars(\E k \in Slots, kind \in ReplyKinds : PeerReply(k, kind))

CallSpec == CallInit /\ [][CallNext]_vars /\ CallFairness

\* A client that one thread starts and stops, also while another thread's
\* ProcessModel call waits for its reply, with a peer that answers no request.
\* The thread in Stop() and the thread in ProcessModel run when they can;
\* nothing is assumed of the watcher and the reconnect loop.
StopCallNext ==
    \/ Invoke(Owner, "start") \/ Invoke(Owner, "stop") \/ StopDuringCall(Owner)
    \/ StartCheck(Owner) \/ StopCheck(Owner) \/ StopCancel(Owner) \/ StopWait(Owner)
    \/ StartRunning(Owner) \/ StartFailed(Owner)
    \/ ClientStartConnect(Owner) \/ ClientStopClose(Owner)
    \/ \E k \in Slots : \/ MonitorRead(k)
                        \/ MonitorDisconnected(k)
                        \/ MonitorCheck(k)
                        \/ ReconnectLoop(k)
                        \/ ReconnectSleep(k)
                        \/ ReconnectDial(k)
                        \/ ReconnectReset(k)
    \/ EnvNext
    \/ ProcessModelRead(FALSE)
    \/ ProcessModelCall
    \/ ProcessModelWait

StopCallFairness ==
    /\ WF_vars(CallerStep(Owner))
    /\ WF_vars(ProcessModelWait)

StopCallSpec == PmInit /\ [][StopCallNext]_vars /\ StopCallFairness

\* The RegisterHandler calls made on a server that is in use: with
\* DefaultModelHandler, with a mock ModelHandler of the same method, and with
\* a mock Handler whose second method is taken.
Registrations ==
    {<<DefaultModelHandler, <<ProcessModelMethod>> >>,
     <<RejectingHandler, <<ProcessModelMethod>> >>,
     <<BasicHandler, <<CustomMethod, ProcessModelMethod>> >>}

\* A peer sends a call on connection k, no other connection having carried one.
SendAlone(k, frame) ==
    /\ \A j \in Slots \ {k} : call[j].st = "idle"
    /\ Send(k, frame)

\* A server on which RegisterHandler is called at any time, also while it is
\* started, serves the calls of a peer and is stopped.
RegistryNext ==
    \/ \E r \in Registrations : RegisterHandler(r[1], r[2])
    \/ Invoke(Owner, "start") \/ StopWhileServing(Owner)
    \/ StartCheck(Owner) \/ StopCheck(Owner) \/ StopCancel(Owner) \/ StopWait(Owner)
    \/ StartRunning(Owner) \/ StartFailed(Owner)
    \/ ServerStartListen(Owner) \/ ServerStopClose(Owner)
    \/ AcceptConn
    \/ AcceptError(FALSE)
    \/ \E k \in Slots : \/ \E frame \in Frames(k) : SendAlone(k, frame)
                        \/ Handle(k)
                        \/ CallReturn(k)
                        \/ Disconnect(k)
                        \/ HandleConnectionDone(k)

RegistrySpec == RegInit /\ [][RegistryNext]_vars

\* A client with AutoReconnect on that one thread starts and stops, with the
\* accesses of the reconnect loops to the attempt counter interleaved.
RaceInit == PmInit /\ autoReconnect

RaceNext ==
    \/ Invoke(Owner, "start") \/ Invoke(Owner, "stop")
    \/ StartCheck(Owner) \/ StopCheck(Owner) \/ StopCancel(Owner) \/ StopWait(Owner)
    \/ StartRunning(Owner) \/ StartFailed(Owner)
    \/ ClientStartConnect(Owner) \/ ClientStopClose(Owner)
    \/ \E k \in Slots : \/ MonitorRead(k)
                        \/ MonitorDisconnected(k)
                        \/ MonitorCheck(k)
                        \/ ReconnectLoopTest(k)
                        \/ ReconnectLoopLoad(k)
                        \/ ReconnectLoopStore(k)
                        \/ ReconnectSleep(k)
                        \/ ReconnectDial(k)
                        \/ ReconnectReset(k)
    \/ EnvNext

RaceSpec == RaceInit /\ [][RaceNext]_vars

\* A server with the slow handler registered, which one thread starts and
\* stops, and whose peers connect, call mcp.processModel once and disconnect.  The
\* server's threads and the readers of its connections are scheduled; a
\* handler whose context is done returns, and so does a handler whose delay
\* passes, which on BlockedConn it need not.
ServeInit ==
    /\ ComponentInit
    /\ role = "server"
    /\ handlers = SlowRegistry
    /\ regRet = NoRegistration
    /\ call = [k \in Slots |-> IdleCall]
    /\ crashed = FALSE

ServeNext ==
    \/ Invoke(Owner, "start") \/ StopWhileServing(Owner)
    \/ StartCheck(Owner) \/ StopCheck(Owner) \/ StopCancel(Owner) \/ StopWait(Owner)
    \/ StartRunning(Owner) \/ StartFailed(Owner)
    \/ ServerStartListen(Owner) \/ ServerStopClose(Owner)
    \/ AcceptConn
    \/ AcceptError(FALSE)
    \/ \E k \in Slots : \/ Send(k, ModelCall(k))
                        \/ SlowEnter(k)
                        \/ \E elapsed \in BOOLEAN : SlowReturn(k, elapsed)
                        \/ Disconnect(k)
                        \/ HandleConnectionDone(k)

ServeFairness ==
    /\ WF_vars(CallerStep(Owner))
    /\ WF_vars(AcceptError(FALSE))
    /\ \A k \in Slots : WF_vars(SlowEnter(k))
    /\ \A k \in Slots : WF_vars(SlowReturn(k, FALSE))
    /\ \A k \in Slots \ {BlockedConn} : WF_vars(SlowReturn(k, TRUE))

ServeSpec == ServeInit /\ [][ServeNext]_vars /\ ServeFairness

\* A server nobody connects to, started and stopped by one thread, with
\* observers of which one has a callback that never returns; the callback
\* goroutines are scheduled like the others.
BlockNext ==
    \/ Invoke(Owner, "start") \/ Invoke(Owner, "stop")
    \/ StartCheck(Owner) \/ StopCheck(Owner) \/ StopCancel(Owner) \/ StopWait(Owner)
    \/ StartRunning(Owner) \/ StartFailed(Owner)
    \/ ServerStartListen(Owner) \/ ServerStopClose(Owner)
    \/ \E transient \in BOOLEAN : AcceptError(transient)
    \/ ObserverNext

BlockFairness ==
    /\ WF_vars(CallerStep(Owner))
    /\ WF_vars(AcceptError(FALSE))
    /\ WF_vars(\E g \in pending : Deliver(g))

BlockSpec == ObsInit /\ [][BlockNext]_vars /\ BlockFairness

\* ------------------------------------------------------------------ claims
Rejected(t, op) == /\ cpc'[t] = "idle"
                   /\ ret' = [op |-> op, val |-> "StateError", at |-> status]

\* what a rejected call must leave alone: the status, the events, the
\* cancellation scope, the connection, the listener and the spawned units
Untouched ==
    UNCHANGED <<status, lastEvent, pending, expected, ctxDone, conn,
                isConnected, connOpen, listenerOpen, acceptPc, units,
                reconnectAttempt>>

\* C1: Start() called while the status is Starting, Running, Stopping or Failed
\* returns an error and changes nothing: no status change, no event, no
\* connect or listen, no goroutine spawned.
C1_StartRejected ==
    [][\A t \in Callers :
         (cpc[t] = "start" /\ cpc'[t] # "start" /\ status # StatusStopped)
            => (Rejected(t, "start") /\ Untouched)]_vars

C1_Witness ==
    /\ ret = [op |-> "start", val |-> "StateError", at |-> StatusStopping]
    /\ status = StatusStopping
    /\ WgCount > 0

\* C2: Stop() called while the status is Stopped, Starting, Stopping or Failed
\* returns an error and changes nothing; a Stop() that returns nil leaves the
\* status Stopped, from which a second Stop() is rejected.
C2_StopRejected ==
    [][\A t \in Callers :
         /\ (cpc[t] = "stop" /\ cpc'[t] # "stop" /\ status # StatusRunning)
               => (Rejected(t, "stop") /\ Untouched)
         /\ (cpc[t] = "stop_wait" /\ cpc'[t] = "idle")
               => (status' = StatusStopped
                   /\ ret' = [op |-> "stop", val |-> "nil", at |-> "none"])]_vars

C2_Witness ==
    /\ ret = [op |-> "stop", val |-> "StateError", at |-> StatusStopped]
    /\ ctxDone
    /\ status = StatusStopped

LegalEdges ==
    {<<StatusStopped, StatusStarting>>, <<StatusStarting, StatusRunning>>,
     <<StatusStarting, StatusFailed>>, <<StatusRunning, StatusStopping>>,
     <<StatusStopping, StatusStopped>>, <<StatusRunning, StatusFailed>>}

\* C3: every change of the status is one of the edges Stopped->Starting,
\* Starting->Running, Starting->Failed, Running->Stopping, Stopping->Stopped
\* or Running->Failed.
C3_OnlyLegalEdges ==
    [][status' # status => <<status, status'>> \in LegalEdges]_vars

\* C4: Failed is absorbing: once the status is Failed it stays Failed.
C4_FailedAbsorbing ==
    [][status = StatusFailed => status' = StatusFailed]_vars

\* C5: after a disconnection that starts the reconnect loop, at most
\* MaxReconnectAttempts connection attempts are made.
C5_AtMostMaxAttempts == dials <= MaxReconnectAttempts

\* C6: a successful retry has reset the attempt counter, so that the watcher of
\* a connection the retry established enters the reconnect loop with
\* reconnectAttempt = 0, the full budget.
C6_FullBudgetAfterRetry ==
    \A k \in Slots :
        (units[k].pc = "loop" /\ units[k].origin = "retry" /\ dials = 0)
            => reconnectAttempt = 0

\* C7: Stop() on a Running server returns, with no connection being closed by
\* its client.
C7_ServerStopReturns ==
    \A t \in Callers :
        (role = "server" /\ cpc[t] = "stop_cancel") ~> (cpc[t] = "idle")

\* C8: Stop() on a Running client returns nil, whatever the watcher and the
\* reconnect loop are doing.
C8_ClientStopReturns ==
    \A t \in Callers :
        (role = "client" /\ cpc[t] = "stop_cancel") ~> (cpc[t] = "idle")

\* how many times position i of its expected log was delivered to observer o
Deliveries(o, i) == Cardinality({j \in 1..Len(received[o]) : received[o][j] = i})

\* C9: an observer's callback is invoked with the events in the order in which
\* the transitions occurred.
C9_OrderPreserved ==
    \A o \in Observers :
        \A i, j \in 1..Len(received[o]) : i < j => received[o][i] < received[o][j]

\* C10: every event constructed after an observer registered is delivered to it
\* exactly once: at any time it has been delivered once, or the one goroutine
\* that will deliver it is still to run; and nothing else is delivered.
C10_ExactlyOnce ==
    /\ \A o \in Registered :
         \A i \in 1..Len(expected[o]) :
            Deliveries(o, i) + (IF [obs |-> o, idx |-> i] \in pending THEN 1 ELSE 0) = 1
    /\ \A o \in Observers :
         /\ \A j \in 1..Len(received[o]) : received[o][j] \in 1..Len(expected[o])
         /\ o \notin Registered => received[o] = <<>>
    /\ \A g \in pending : g.obs \in Registered /\ g.idx \in 1..Len(expected[g.obs])

InStart == {"start_connect", "start_running", "start_failed"}

StartedEvent == [old |-> StatusStopped, new |-> StatusStarting, err |-> "nil"]
RunningEvent == [old |-> StatusStarting, new |-> StatusRunning, err |-> "nil"]
StartFailedEvent == [old |-> StatusStarting, new |-> StatusFailed, err |-> "connect"]

\* C11: a Start() on a Stopped component whose connect or listen succeeds
\* records Stopped->Starting, then, with no transition in between,
\* Starting->Running, and returns nil with the status Running.
C11_StartSucceeds ==
    [][\A t \in Callers :
         /\ (cpc[t] = "start" /\ cpc'[t] = "start_connect")
               => (status = StatusStopped /\ status' = StatusStarting
                   /\ lastEvent' = StartedEvent)
         /\ (cpc[t] \in {"start_connect", "start_running"})
               => /\ status = StatusStarting
                  /\ lastEvent = StartedEvent
                  /\ cpc'[t] # "idle" => UNCHANGED <<status, lastEvent>>
         /\ (cpc[t] = "start_running" /\ cpc'[t] # "start_running")
               => /\ cpc'[t] = "idle"
                  /\ status' = StatusRunning
                  /\ lastEvent' = RunningEvent
                  /\ ret' = [op |-> "start", val |-> "nil", at |-> "none"]]_vars

C11_Witness ==
    /\ ret = [op |-> "start", val |-> "nil", at |-> "none"]
    /\ lastEvent = RunningEvent
    /\ status = StatusRunning
    /\ ctxDone

\* C12: a Start() on a Stopped component whose connect or listen fails records
\* Stopped->Starting then Starting->Failed and returns an error; the failed
\* attempt opens no connection or listener and starts no goroutine, and once
\* the failure is recorded the status stays Failed, with no goroutine alive
\* and no caller at a connect or listen.
C12_StartFails ==
    [][/\ \A t \in Callers :
            /\ (cpc[t] = "start_connect" /\ cpc'[t] = "start_failed")
                  => UNCHANGED <<status, lastEvent, conn, isConnected, connOpen,
                                 listenerOpen, acceptPc, units, dials>>
            /\ cpc[t] = "start_failed"
                  => /\ status = StatusStarting
                     /\ lastEvent = StartedEvent
                     /\ WgCount = 0
            /\ (cpc[t] = "start_failed" /\ cpc'[t] # "start_failed")
                  => /\ cpc'[t] = "idle"
                     /\ status' = StatusFailed
                     /\ lastEvent' = StartFailedEvent
                     /\ ret' = [op |-> "start", val |-> "ConnectionError",
                                at |-> "none"]
       /\ lastEvent = StartFailedEvent
            => /\ status = StatusFailed
               /\ WgCount = 0
               /\ ~isConnected
               /\ ~listenerOpen
               /\ \A k \in Slots : ~connOpen[k]
               /\ \A t \in Callers : cpc[t] \notin InStart
               /\ UNCHANGED <<status, lastEvent, conn, isConnected, connOpen,
                              listenerOpen, acceptPc, units, dials>>]_vars

C12_Witness ==
    /\ ret = [op |-> "start", val |-> "ConnectionError", at |-> "none"]
    /\ lastEvent = StartFailedEvent
    /\ status = StatusFailed
    /\ role = "client"
    /\ ctxDone

\* a RegisterHandler call is made in this step
Registers == <<handlers, regRet>>' # <<handlers, regRet>>

\* C13: RegisterHandler with a handler that declares a method name that is
\* registered returns an error, and the handler registered under that name
\* before the call is the one registered under it after the call.
C13_ConflictKeepsMapping ==
    [][Registers =>
         \A i \in 1..Len(regRet'.methods) :
            LET m == regRet'.methods[i] IN
            handlers[m] # NoHandler
               => (regRet'.err \in MethodNames /\ handlers'[m] = handlers[m])]_vars

C13_Witness ==
    /\ regRet.err \in MethodNames
    /\ regRet.methods = <<regRet.err>>
    /\ handlers[regRet.err] \notin {NoHandler, regRet.handler}

\* C14: a RegisterHandler call that returns an error leaves the registry as
\* it was before the call.
C14_AllOrNothing ==
    [][regRet'.err # "nil" => handlers' = handlers]_vars

\* rpcHandler.Handle runs for the call on connection k in this step
Handled(k) == call[k].st = "sent" /\ call'[k].st \in {"replied", "panicked"}

\* what a call that is answered leaves alone: the connection and the goroutine
\* that reads it stay up, and so do the server, its listener and its registry
ServerKeepsRunning(k) ==
    /\ connOpen'[k] /\ units'[k].pc = "serve"
    /\ ~crashed'
    /\ UNCHANGED <<status, lastEvent, connOpen, units, listenerOpen, acceptPc,
                   handlers>>

\* C15: a call of a method name that is not registered gets exactly one reply,
\* the error MethodNotFound; no handler is invoked, and the connection stays
\* open with its reader running, ready for the next call.
C15_UnknownMethod ==
    [][\A k \in Slots :
         (Handled(k) /\ handlers[call[k].frame.method] = NoHandler)
            => /\ call'[k].st = "replied"
               /\ Len(call'[k].replies) = 1
               /\ call'[k].replies[1].code = CodeMethodNotFound
               /\ call'[k].invoked = NotInvoked
               /\ ServerKeepsRunning(k)]_vars

C15_Witness ==
    \E k \in Slots :
        /\ call[k].st = "returned"
        /\ call[k].result.err = CodeMethodNotFound
        /\ handlers[call[k].frame.method] = NoHandler
        /\ connOpen[k]
        /\ units[k].pc = "serve"
        /\ status = StatusRunning

\* C16: a call of a registered method name, whatever the name, whose params
\* decode has the handler registered under the name invoked, and its one
\* reply is what that handler returned: its response, or InternalError with
\* its error.
C16_DispatchByName ==
    [][\A k \in Slots :
         LET req == call[k].frame
             handler == handlers[req.method]
             decoded == UnmarshalRequest(req.params)
         IN (Handled(k) /\ handler \in ModelHandler /\ decoded.err = "nil")
               => LET out == ProcessModel(handler, decoded.req) IN
                  /\ call'[k].invoked.handler = handler
                  /\ call'[k].replies =
                        <<IF out.err # "nil"
                          THEN ErrorReply(CodeInternalError, out.err)
                          ELSE ResultReply(out.resp)>>]_vars

\* C17: when the handler invoked for a call returns an error, the call gets
\* exactly one reply, the error InternalError with the handler's message;
\* the connection stays open and the server's status is unchanged.
C17_HandlerError ==
    [][\A k \in Slots :
         (Handled(k) /\ call'[k].invoked.err \notin {"nil", "none"})
            => /\ call'[k].st = "replied"
               /\ call'[k].replies =
                     <<ErrorReply(CodeInternalError, call'[k].invoked.err)>>
               /\ ServerKeepsRunning(k)]_vars

C17_Witness ==
    \E k \in Slots :
        /\ call[k].st = "returned"
        /\ call[k].invoked.handler = FailingHandler
        /\ call[k].invoked.err = "processError"
        /\ call[k].result.err = CodeInternalError
        /\ connOpen[k]
        /\ units[k].pc = "serve"
        /\ status = StatusRunning

\* C18: a call of a method registered with a ModelHandler whose params do not
\* decode into a request, be they of the wrong shape or absent, gets exactly
\* one reply, the error InvalidParams; no handler is invoked, and the
\* connection and the server keep running.
C18_UndecodableParams ==
    [][\A k \in Slots :
         LET req == call[k].frame IN
         (Handled(k) /\ handlers[req.method] \in ModelHandler
                     /\ UnmarshalRequest(req.params).err # "nil")
            => /\ call'[k].st = "replied"
               /\ Len(call'[k].replies) = 1
               /\ call'[k].replies[1].code = CodeInvalidParams
               /\ call'[k].invoked = NotInvoked
               /\ ServerKeepsRunning(k)]_vars

\* C19: the response a handler returns with a nil error is the response the
\* client's ProcessModel returns, with a nil error: the rejecting handler's
\* success = false and message, the default handler's success = true and
\* results status = processed.
C19_ResponseUnchanged ==
    \A k \in Slots :
        (call[k].st = "returned" /\ call[k].invoked.err = "nil")
           => /\ call[k].result = [resp |-> call[k].invoked.resp, err |-> "nil"]
              /\ call[k].invoked.handler = RejectingHandler
                    => /\ ~call[k].result.resp.success
                       /\ call[k].result.resp.errorMessage = "rejected request"
              /\ call[k].invoked.handler = DefaultModelHandler
                    => /\ call[k].result.resp.success
                       /\ <<"status", "processed">> \in call[k].result.resp.results

C19_Witness ==
    \E j, k \in Slots :
        /\ j # k
        /\ call[j].st = "returned"
        /\ call[j].invoked.handler = RejectingHandler
        /\ call[j].result.resp.errorMessage = "rejected request"
        /\ call[j].result.err = "nil"
        /\ call[k].st = "returned"
        /\ call[k].frame.params = NullParams
        /\ call[k].result.err = "nil"

\* C20: the response ProcessModel returns for a request carries the request's
\* identifier, whichever handler is registered and however many calls are
\* outstanding.
C20_ResponseCarriesRequestId ==
    \A k \in Slots :
        (call[k].st = "returned" /\ call[k].result.err = "nil"
                                 /\ call[k].frame.params.kind = "object")
           => call[k].result.resp.id = call[k].frame.params.id

\* C21: a ProcessModel call made while the client has no established
\* connection (IsConnected() is false: before Start(), after a failed Start(),
\* after Stop(), after the connection was lost) returns the not-connected
\* error at once, and nothing is written on the transport.
C21_NotConnected ==
    [][(pm'.n # pm.n /\ ~isConnected)
          => /\ pm'.pc = "idle"
             /\ pm'.result = [resp |-> 0, err |-> "NotConnected"]
             /\ wire' = wire]_vars

\* C22: a ProcessModel call made on a connected client with a context that is
\* cancelled already writes no request on the transport, and returns an error
\* and a nil response.
C22_CancelledBeforeCall ==
    [][pm.pre
          => /\ wire' \subseteq wire
             /\ pm'.pc = "idle" => (pm'.result.err # "nil" /\ pm'.result.resp = 0)]_vars

\* C23: a ProcessModel call whose context is cancelled or expires while it
\* waits, no reply having come, returns an error and a nil response; a
\* response that ProcessModel returns is the answer to the request of that
\* very call, never the late answer to an abandoned one; a call that has its
\* answer, a live context and an open connection returns it with a nil error;
\* and a call that waits, be it behind abandoned requests, returns.
C23_AbandonedCall ==
    /\ [][/\ (pm.pc = "wait" /\ pm'.pc = "idle" /\ pm.ctx = "done" /\ pm.ready = NoReply)
               => (pm'.result.err # "nil" /\ pm'.result.resp = 0)
          /\ (pm.pc = "wait" /\ pm'.pc = "idle" /\ pm'.result.err = "nil")
               => pm'.result.resp = pm.n
          /\ (pm.pc = "wait" /\ pm'.pc = "idle" /\ pm.ready.kind = "result"
                              /\ pm.ctx = "live" /\ connOpen[pm.conn])
               => pm'.result = [resp |-> pm.n, err |-> "nil"]]_vars
    /\ (pm.pc = "wait") ~> (pm.pc = "idle")

\* a call waits, its context live, on the connection on which the request of
\* the call before it, which was abandoned, is still to be answered
C23_Witness ==
    /\ pm.pc = "wait"
    /\ pm.ctx = "live"
    /\ pm.n = 2
    /\ {[conn |-> pm.conn, n |-> 1], [conn |-> pm.conn, n |-> 2]} \subseteq wire
    /\ status = StatusRunning
    /\ connOpen[pm.conn]

\* C24: no step of a ProcessModel call, whatever the call returns, changes the
\* status, emits an event, changes the reconnect counter, closes or replaces
\* the connection, or starts or ends a goroutine.
C24_ProcessModelFrame ==
    [][pm' # pm
          => UNCHANGED <<status, lastEvent, pending, expected, reconnectAttempt,
                         conn, isConnected, connOpen, units, ctxDone>>]_vars

C24_Witness ==
    /\ pm.pc = "idle"
    /\ pm.result = [resp |-> 0, err |-> CodeInternalError]
    /\ status = StatusRunning
    /\ reconnectAttempt > 0
    /\ isConnected
    /\ connOpen[conn]

\* the goroutine of slot k is in attemptReconnect
Reconnecting(k) == units[k].pc \in {"loop", "sleep", "dial", "reset"}

\* C25: with AutoReconnect off, a lost connection is never followed by a
\* reconnection attempt: no goroutine enters attemptReconnect and no dial is
\* made by one; the status changes only in a step of a Start() or Stop() call;
\* isConnected goes from false to true only in the connect of a Start(), which
\* runs from Stopped, that is after a Stop(); and when the connection of a
\* Running client is lost, IsConnected() is false or the watcher of that
\* connection is still to see the loss, and makes it false when it does.
C25_NoReconnectWhenDisabled ==
    [][(role = "client" /\ ~autoReconnect)
         => /\ \A k \in Slots : ~Reconnecting(k)'
            /\ dials' = 0
            /\ reconnectAttempt' = 0
            /\ status' # status => \E t \in Callers : cpc'[t] # cpc[t]
            /\ (isConnected' /\ ~isConnected)
                  => /\ status = StatusStarting
                     /\ \E t \in Callers : /\ cpc[t] = "start_connect"
                                            /\ cpc'[t] = "start_running"
            /\ (status = StatusRunning /\ conn # 0 /\ ~connOpen[conn] /\ isConnected)
                  => \E k \in Slots :
                        \/ units[k].pc = "read"
                        \/ units[k].pc = "wait" /\ units[k].conn = conn
            /\ \A k \in Slots :
                  (units[k].pc = "wait" /\ units'[k].pc # "wait") => ~isConnected']_vars

C25_Witness ==
    /\ role = "client"
    /\ ~autoReconnect
    /\ status = StatusRunning
    /\ ctxDone
    /\ conn # 0
    /\ ~connOpen[conn]
    /\ ~isConnected
    /\ WgCount = 0

\* C26: whenever the status is Starting or Running, the cancellation scope of
\* the component is not cancelled: a Start() after a completed Stop() runs with
\* a fresh scope.
C26_FreshScopePerStart ==
    status \in {StatusStarting, StatusRunning} => ~ctxDone

\* the events due to the observers other than the blocking one
DueToOthers == {g \in pending : g.obs # BlockingObserver}

\* C27: with an observer whose callback never returns, and goroutines blocked
\* in it, every Start() and Stop() call returns, a transition that was begun
\* is completed (Starting goes on to Running or Failed, Stopping to Stopped),
\* and the events due to the other observers are delivered to them: whatever
\* has happened, there comes a state with no call in progress, the status
\* neither Starting nor Stopping and no event due to another observer.
C27_BlockingObserver ==
    []<>(/\ cpc[Owner] = "idle"
         /\ status \in {StatusStopped, StatusRunning, StatusFailed}
         /\ DueToOthers = {})

C27_Witness ==
    /\ Blocked # {}
    /\ [obs |-> BlockingObserver, idx |-> 1] \in Blocked
    /\ status = StatusRunning
    /\ ret = [op |-> "start", val |-> "nil", at |-> "none"]
    /\ \E o \in Observers \ {BlockingObserver} : received[o] = <<1, 2>>

\* the connections the server is handling: those with a handleConnection
\* goroutine
Handling == {k \in Slots : units[k].pc = "serve"}

\* C28: the server never handles more than MaxConcurrentClients connections
\* at the same time.
C28_ConcurrentClientsBounded ==
    role = "server" => Cardinality(Handling) <= MaxConcurrentClients

InStop == {"stop_cancel", "stop_close", "stop_wait"}
\* the callers whose Start() or Stop() has passed the status check and has
\* not returned
Proceeding == {t \in Callers : cpc[t] \in InStart \cup InStop}

\* C29: transitions are mutually exclusive.  A Start() passes its check only
\* from Stopped and a Stop() only from Running, in one step with the change of
\* the status, and only when no other call is past its check; every other
\* call is rejected with an error and no effect; so at any time at most one
\* call is between its check and its return.
C29_MutualExclusion ==
    [][/\ \A t \in Callers :
            /\ (cpc[t] = "start" /\ cpc'[t] # "start")
                  => IF status = StatusStopped
                     THEN /\ Proceeding = {}
                          /\ cpc'[t] = "start_connect"
                          /\ status' = StatusStarting
                     ELSE Rejected(t, "start") /\ Untouched
            /\ (cpc[t] = "stop" /\ cpc'[t] # "stop")
                  => IF status = StatusRunning
                     THEN /\ Proceeding = {}
                          /\ cpc'[t] = "stop_cancel"
                          /\ status' = StatusStopping
                     ELSE Rejected(t, "stop") /\ Untouched
       /\ Cardinality(Proceeding) <= 1
       /\ Cardinality(Proceeding') <= 1]_vars

\* two Start() calls were made on a Stopped component: one is at its connect,
\* the other was rejected
C29_Witness ==
    /\ \E t \in Callers : cpc[t] = "start_connect"
    /\ ret = [op |-> "start", val |-> "StateError", at |-> StatusStarting]
    /\ ~ctxDone

\* C30: once Stop() has cancelled the client's context, attemptReconnect makes
\* no connection attempt: no step is a dial of the reconnect loop, and so the
\* loop installs no connection.
C30_StopInterruptsReconnect ==
    [][ctxDone
         => \A k \in Slots : ~(units[k].pc = "dial" /\ units'[k].pc # "dial")]_vars

\* C31: while the client's status is Stopped or Failed, IsConnected() is
\* false, no watcher and no reconnect loop is running, and no transport
\* connection the client opened is open.
C31_NoLiveConnection ==
    (role = "client" /\ status \in {StatusStopped, StatusFailed})
        => /\ ~isConnected
           /\ \A k \in Slots : units[k].pc = "none" /\ ~connOpen[k]

\* C32: the server's status is never Stopped while its accept loop or one of
\* its handleConnection goroutines is still running, or while its listener
\* still accepts connections.
C32_StoppedAfterJoin ==
    (role = "server" /\ status = StatusStopped)
        => /\ acceptPc = "none"
           /\ \A k \in Slots : units[k].pc = "none"
           /\ ~listenerOpen

\* Stop() waits in wg.Wait(), the accept loop having returned, for a
\* handleConnection goroutine whose connection is still open.
C32_Witness ==
    /\ role = "server"
    /\ status = StatusStopping
    /\ \E t \in Callers : cpc[t] = "stop_wait"
    /\ acceptPc = "none"
    /\ \E k \in Slots : units[k].pc = "serve" /\ connOpen[k]

\* C33: a ProcessModel call that waits for its reply when Stop() is called,
\* whose context is never cancelled and which no reply reaches, returns, and
\* what it returns is a nil response and an error.
C33_StopEndsCall ==
    /\ [][(pm.pc = "wait" /\ pm'.pc = "idle")
            => (pm'.result.resp = 0 /\ pm'.result.err \notin {"nil", "none"})]_vars
    /\ (pm.pc = "wait" /\ cpc[Owner] = "stop") ~> (pm.pc = "idle")

\* Stop() has closed the connection on which the call, which no reply has
\* reached and whose context is live, still waits.
C33_Witness ==
    /\ pm.pc = "wait"
    /\ pm.ctx = "live"
    /\ pm.ready = NoReply
    /\ cpc[Owner] = "stop_wait"
    /\ ~connOpen[pm.conn]
    /\ [conn |-> pm.conn, n |-> pm.n] \notin wire

\* the errors a status event carries: that of connect() or net.Listen in
\* Start(), and that of the reconnect loop giving up
Causes == {"connect", "exhausted"}

\* C34: every status event whose new status is Failed carries an error, that
\* of Start() or that of the exhausted reconnect loop, and every other status
\* event carries none.
C34_FailedCarriesError ==
    /\ lastEvent.new = StatusFailed => lastEvent.err \in Causes
    /\ lastEvent.new # StatusFailed => lastEvent.err = "nil"
    /\ \A o \in Observers : \A i \in 1..Len(expected[o]) :
          (expected[o][i].new = StatusFailed) <=> (expected[o][i].err # "nil")

\* The reconnect loop has given up and recorded Failed.
C34_Witness ==
    /\ role = "client"
    /\ status = StatusFailed
    /\ lastEvent = [old |-> StatusRunning, new |-> StatusFailed, err |-> "exhausted"]

\* C35: while a handler execution on one connection does not return, the
\* accept loop can still accept a connection, and a call that arrives on
\* another connection is dispatched and answered, unless that connection is
\* closed first.
C35_IndependentConnections ==
    /\ []((call[BlockedConn].st = "handling"
             /\ acceptPc = "accept" /\ listenerOpen /\ FreeSlots # {})
            => ENABLED AcceptConn)
    /\ \A j \in Slots \ {BlockedConn} :
          (call[BlockedConn].st = "handling" /\ call[j].st = "sent")
             ~> (call[j].st \in {"replied", "returned"} \/ ~connOpen[j])

\* The handler has answered a call on another connection while its execution
\* on BlockedConn goes on.
C35_Witness ==
    /\ call[BlockedConn].st = "handling"
    /\ connOpen[BlockedConn]
    /\ status = StatusRunning
    /\ \E j \in Slots \ {BlockedConn} :
          /\ call[j].st = "replied"
          /\ call[j].invoked.req.id = RequestId(j)
          /\ call[j].replies = <<ResultReply(call[j].invoked.resp)>>

\* C36: when the connection a call arrived on is torn down while the handler
\* executes and the server is Running, the handler's context becomes done
\* while the handler still executes.
C36_HandlerCtxScopedToConn ==
    \A k \in Slots :
        (call[k].st = "handling" /\ ~connOpen[k] /\ status = StatusRunning)
           ~> (HandlerCtxDone(k) \/ call[k].st # "handling" \/ status # StatusRunning)

\* C37: the status events of a component form a chain that starts at Stopped:
\* the old status of every event is the new status of the event before it
\* (Stopped for the first), and the new status of the latest event is the
\* status.
C37_EventChain ==
    /\ [](lastEvent.new = status)
    /\ [][lastEvent' # lastEvent => lastEvent'.old = lastEvent.new]_vars

\* The reconnect loop has recorded Failed while Stop() was in progress: the
\* event of a transition made by a goroutine racing with the caller.
C37_Witness ==
    /\ lastEvent.old = StatusStopping
    /\ lastEvent.new = StatusFailed
    /\ \E t \in Callers : cpc[t] \in {"stop_cancel", "stop_close", "stop_wait"}

\* C38: the reconnect attempt counter is always between 0 and
\* MaxReconnectAttempts, whichever way the accesses of a reconnect loop and
\* the reset of the loop before it interleave.
C38_CounterInRange ==
    /\ reconnectAttempt \in 0..MaxReconnectAttempts
    /\ \A k \in Slots : units[k].pc = "store" => units[k].loaded < MaxReconnectAttempts

\* The watcher of a connection that a retry established is in the middle of
\* its increment, having read the counter before the loop that made the retry
\* reset it.
C38_Witness ==
    \E k \in Slots :
        /\ units[k].pc = "store"
        /\ units[k].origin = "retry"
        /\ units[k].loaded > 0
        /\ reconnectAttempt = 0

\* C39: the handler registry only grows, and only by RegisterHandler: a step
\* of Start(), of Stop(), of a status change, of a connection or of the
\* dispatch of a call leaves it as it is, and a step that changes it leaves
\* every entry that existed as it was and adds entries for the handler and
\* the methods of a RegisterHandler call.
C39_RegistryOnlyGrows ==
    [][/\ \A m \in MethodNames :
            handlers[m] # NoHandler => handlers'[m] = handlers[m]
       /\ \A m \in MethodNames :
            handlers'[m] # handlers[m]
               => /\ regRet'.handler \in HandlerKinds
                  /\ handlers'[m] = regRet'.handler
                  /\ m \in Range(regRet'.methods)
       /\ (status' # status \/ cpc' # cpc \/ call' # call \/ units' # units
             \/ connOpen' # connOpen \/ listenerOpen' # listenerOpen
             \/ acceptPc' # acceptPc \/ ctxDone' # ctxDone)
            => handlers' = handlers]_vars

\* The server was started, has answered a call and was stopped, with a
\* handler registered, and the last RegisterHandler call met a conflict.
C39_Witness ==
    /\ status = StatusStopped
    /\ ret = [op |-> "stop", val |-> "nil", at |-> "none"]
    /\ handlers[ProcessModelMethod] # NoHandler
    /\ regRet.err \notin {"nil", "none"}
    /\ \E k \in Slots : call[k].st \in {"replied", "returned"} /\ call[k].replies # <<>>

\* the client holds no open connection
Unconnected == conn = 0 \/ ~connOpen[conn]

\* C40: a client with AutoReconnect on, on which Stop() has never been called,
\* that is Running and has lost its connection, also when it lost it before
\* Start() recorded Running, gets a connection again or leaves Running (for
\* Failed, or because Stop() is called after all).
C40_ReconnectOrFail ==
    (role = "client" /\ autoReconnect /\ ~ctxDone
        /\ status = StatusRunning /\ Unconnected)
        ~> (status # StatusRunning \/ ~Unconnected)

====
